---- MODULE Spec2Model ----
(***************************************************************************)
(* Emergency-vehicle priority scripts driving a traffic simulator over its *)
(* remote-control API:                                                     *)
(*   ambulance_comm.py  the per-step priority loop (V2I override, V2V      *)
(*                      scan, lane change)                                 *)
(*   interface.py       the same loop run in a background worker, with a   *)
(*                      presentation loop polling shared logs under a lock *)
(*   generate_rsu.py    induction-loop placement on ambulance routes       *)
(* Identifiers are sequences of one-character strings, so that Python's    *)
(* substring test (x in y) and lower() are computed, not assumed.          *)
(***************************************************************************)
EXTENDS Integers, Sequences, FiniteSets, TLC

(***************************************************************************)
(* Bounds of the model.                                                    *)
(***************************************************************************)
\* simulation steps taken by the priority loop
MaxSteps == 2

\* simulation steps taken by the dashboard's worker
MaxDashSteps == 2

\* iterations of the dashboard's plotting loop (range(1000) in the script)
MaxPolls == 2

\* iterations of the RSU script's detection loop (range(200) in the script)
MaxAdvance == 2

(***************************************************************************)
(* Python string operations.                                               *)
(***************************************************************************)
\* s in t, for strings
IsSubstr(s, t) ==
    \E i \in 0..(Len(t) - Len(s)) : SubSeq(t, i + 1, i + Len(s)) = s

UpperLetters ==
    <<"A","B","C","D","E","F","G","H","I","J","K","L","M",
      "N","O","P","Q","R","S","T","U","V","W","X","Y","Z">>

LowerLetters ==
    <<"a","b","c","d","e","f","g","h","i","j","k","l","m",
      "n","o","p","q","r","s","t","u","v","w","x","y","z">>

LowerChar(c) ==
    IF \E i \in 1..26 : UpperLetters[i] = c
    THEN LowerLetters[CHOOSE i \in 1..26 : UpperLetters[i] = c]
    ELSE c

\* s.lower()
Lower(s) == [i \in 1..Len(s) |-> LowerChar(s[i])]

Digit(n) == <<"0","1","2","3","4","5","6","7","8","9">>[n + 1]

(***************************************************************************)
(* The simulated network and fleet (what the simulator's API reports).     *)
(***************************************************************************)
\* the word searched for in a vehicle identifier
AmbulanceWord == <<"a","m","b","u","l","a","n","c","e">>

\* traci.vehicle.getIDList() order; id and vehicle class of each vehicle
Fleet ==
    << [id |-> <<"A","m","b","u","l","a","n","c","e","1">>, vclass |-> "emergency"],
       [id |-> <<"a","m","b","u","l","a","n","c","e","2">>, vclass |-> "passenger"],
       [id |-> <<"c","a","r","3">>,                         vclass |-> "passenger"] >>

VehIdx == 1..Len(Fleet)

EdgeA == <<"a">>
EdgeRevA == <<"-","a">>
EdgeB == <<"b">>
EdgeC == <<"c">>

\* traci.edge.getLaneNumber
LaneNumber(edge) == IF edge = EdgeA THEN 3 ELSE 1

\* a lane identifier is the edge identifier, "_" and the lane index
LaneID(edge, idx) == edge \o <<"_">> \o Digit(idx)

\* traci.trafficlight.getIDList()
Junctions == <<"J1", "J2", "J3">>

TLs == {Junctions[i] : i \in 1..Len(Junctions)}

\* traci.trafficlight.getControlledLanes
ControlledLanes(tl) ==
    CASE tl = "J1" -> <<LaneID(EdgeA, 0), LaneID(EdgeA, 1), LaneID(EdgeB, 0)>>
      [] tl = "J2" -> <<LaneID(EdgeRevA, 0), LaneID(EdgeC, 0)>>
      [] tl = "J3" -> <<LaneID(EdgeC, 0)>>

\* the phases of a light's own program "0" (signal-state strings)
Phases(tl) ==
    CASE tl = "J1" -> {<<"G","G","r">>, <<"r","r","G">>}
      [] tl = "J2" -> {<<"G","r">>, <<"r","G">>}
      [] tl = "J3" -> {<<"G","G">>}

\* every light showing one of its own phases
PhaseAssignments ==
    {f \in [TLs -> UNION {Phases(tl) : tl \in TLs}] : \A tl \in TLs : f[tl] \in Phases(tl)}

\* a vehicle that is not in the network
Absent == [present |-> FALSE, edge |-> <<>>, lane |-> 0, pos |-> <<0, 0>>]

OnRoad(edge, lane, pos) ==
    [present |-> TRUE, edge |-> edge, lane |-> lane, pos |-> pos]

\* inputs: the network snapshot after a simulation step.
\* Roads vary, every vehicle keeps its own place along lane 0.
PlaceOf(v) == <<(v - 1) * 30, 0>>

SnapshotsTL ==
    [VehIdx -> {Absent}] \cup
    {s \in [VehIdx -> {Absent} \cup
                      {OnRoad(e, 0, <<x, 0>>) : e \in {EdgeA, EdgeB, EdgeC}, x \in {0, 30, 60}}] :
        \A v \in VehIdx : s[v].present => s[v].pos = PlaceOf(v)}

\* Positions and lanes vary on the multi-lane road.
Places == {<<0, 0>>, <<40, 0>>, <<80, 60>>}

SnapshotsV2V ==
    [VehIdx -> {Absent} \cup
               {OnRoad(EdgeA, l, p) : l \in 0..1, p \in Places}]

(***************************************************************************)
(* State.                                                                  *)
(***************************************************************************)
VARIABLES
    variant,                   \* "comm" (ambulance_comm.py) or "dash" (interface.py)
    pc,                        \* position of the stepping loop
    step,
    veh,                       \* the simulator's vehicles
    tlProgram,                 \* the simulator's lights: active program
    tlState,                   \*                         signal-state string
    ambulances,                \* list of fleet indices
    ai,                        \* index into ambulances (for amb_id in ambulances)
    ti,                        \* index into Junctions (for tl in junctions)
    amb_lane_index,
    original_tl_programs,
    congestion_detected,
    alerted_vehicles_in_step,
    options,
    oi,                        \* index into options (for new_lane in options)
    changed,
    lastOp,                    \* history: what the last step did through the API
    attempts,                  \* history: lane-change attempts of the current ambulance
    controller,                \* history: the ambulance that saved a light's program
    \* interface.py: the background worker and the presentation loop
    wpc,                       \* position of run_simulation
    upc,                       \* position of the live plotting loop
    holders,                   \* the threads inside "with log_lock"
    dstep,                     \* run_simulation's step
    dai,                       \* index into ambulances in run_simulation
    speed,                     \* the simulator's vehicle speeds
    amb_speed,
    total_alerted_this_step,
    traffic_lights_controlled,
    time_log,
    ambulance_speed_log,
    vehicle_alert_count,
    traffic_light_control_log,
    stopped_vehicle_counts,
    simulation_times,
    vehicle_data,
    polls,                     \* iterations of the plotting loop so far
    seen,                      \* history: list lengths read under the lock
    \* generate_rsu.py
    rpc,                       \* position of the script
    emergency_edges,
    advanced,                  \* iterations of the detection loop so far
    placed,                    \* the edges the placement loop has visited
    rsu_list,
    measured,                  \* history: the lane lengths the script read
    xml                        \* the inductionLoop elements written

loopVars ==
    <<variant, pc, step, veh, tlProgram, tlState, ambulances, ai, ti,
      amb_lane_index, original_tl_programs, congestion_detected,
      alerted_vehicles_in_step, options, oi, changed, lastOp, attempts,
      controller>>

\* the priority loop's state except the simulator's vehicles
loopRest ==
    <<variant, pc, step, tlProgram, tlState, ambulances, ai, ti,
      amb_lane_index, original_tl_programs, congestion_detected,
      alerted_vehicles_in_step, options, oi, changed, lastOp, attempts,
      controller>>

sharedLogs ==
    <<time_log, ambulance_speed_log, vehicle_alert_count,
      traffic_light_control_log, stopped_vehicle_counts, simulation_times,
      vehicle_data>>

dashVars ==
    <<wpc, upc, holders, dstep, dai, speed, amb_speed, total_alerted_this_step,
      traffic_lights_controlled, sharedLogs, polls, seen>>

rsuVars == <<rpc, emergency_edges, advanced, placed, rsu_list, measured, xml>>

vars == <<loopVars, dashVars, rsuVars>>

NoOp == [kind |-> "none", amb |-> 0, tl |-> "", val |-> <<>>, prog |-> ""]

Op(kind, amb, tl, val, prog) ==
    [kind |-> kind, amb |-> amb, tl |-> tl, val |-> val, prog |-> prog]

(***************************************************************************)
(* The priority loop.                                                      *)
(***************************************************************************)
PROACTIVE_DISTANCE == 100

\* "ambulance" in v.lower() or getVehicleClass(v) == "emergency"
IsAmbulance(v) ==
    \/ IsSubstr(AmbulanceWord, Lower(Fleet[v].id))
    \/ Fleet[v].vclass = "emergency"

\* vehicles = traci.vehicle.getIDList()
VehicleList(snapshot) == SelectSeq([v \in VehIdx |-> v], LAMBDA v : snapshot[v].present)

\* ambulances = [v for v in vehicles if ...]
AmbulanceIdx == {v \in VehIdx : IsAmbulance(v)}

AmbulanceList(snapshot) ==
    SelectSeq(VehicleList(snapshot), LAMBDA v : v \in AmbulanceIdx)

\* any(amb_edge in lane for lane in controlled_lanes)
AnyLaneMatches(amb_edge, controlled_lanes) ==
    \E i \in 1..Len(controlled_lanes) : IsSubstr(amb_edge, controlled_lanes[i])

\* a faulty variant: green only for the first matching lane
BuildStateFirstMatchOnly(amb_edge, controlled_lanes) ==
    [i \in 1..Len(controlled_lanes) |->
        IF /\ IsSubstr(amb_edge, controlled_lanes[i])
           /\ \A j \in 1..(i - 1) : ~IsSubstr(amb_edge, controlled_lanes[j])
        THEN "G" ELSE "r"]

\* the for loop appending 'G' or 'r' per controlled lane
RECURSIVE BuildState(_, _)
BuildState(amb_edge, controlled_lanes) ==
    IF controlled_lanes = <<>>
    THEN <<>>
    ELSE (IF IsSubstr(amb_edge, Head(controlled_lanes)) THEN <<"G">> ELSE <<"r">>)
         \o BuildState(amb_edge, Tail(controlled_lanes))

\* a faulty variant: the length check always passes
LengthOkAlways(state, original_state) == TRUE

\* len(state) == len(original_state)
LengthOk(state, original_state) == Len(state) = Len(original_state)

\* interface.py before the worker thread starts
DashInit ==
    /\ wpc = "w_loop"
    /\ upc = "u_sleep"
    /\ holders = {}
    /\ dstep = 0
    /\ dai = 0
    /\ speed = [v \in VehIdx |-> 0]
    /\ amb_speed = 0
    /\ total_alerted_this_step = 0
    /\ traffic_lights_controlled = 0
    /\ time_log = <<>>
    /\ ambulance_speed_log = <<>>
    /\ vehicle_alert_count = <<>>
    /\ traffic_light_control_log = <<>>
    /\ stopped_vehicle_counts = <<>>
    /\ simulation_times = <<>>
    /\ vehicle_data = <<>>
    /\ polls = 0
    /\ seen = <<>>

\* generate_rsu.py after traci.start
RsuInit ==
    /\ rpc = "scan"
    /\ emergency_edges = {}
    /\ advanced = 0
    /\ placed = {}
    /\ rsu_list = <<>>
    /\ measured = <<>>
    /\ xml = <<>>

Init ==
    /\ DashInit
    /\ RsuInit
    /\ variant \in {"comm", "dash"}
    /\ pc = "loop"
    /\ step = 0
    /\ veh = [v \in VehIdx |-> Absent]
    /\ tlProgram = [tl \in TLs |-> "0"]
    /\ tlState \in PhaseAssignments
    /\ ambulances = <<>>
    /\ ai = 0
    /\ ti = 0
    /\ amb_lane_index = 0
    /\ original_tl_programs = <<>>
    /\ congestion_detected = FALSE
    /\ alerted_vehicles_in_step = 0
    /\ options = <<>>
    /\ oi = 0
    /\ changed = FALSE
    /\ lastOp = NoOp
    /\ attempts = <<>>
    /\ controller = [tl \in TLs |-> 0]


\* the simulator advances: a light running its own program shows any of its
\* phases, a light under an "online" override keeps the override
SimulatedLights(prog) ==
    {[tl \in TLs |-> IF prog[tl] = "0" THEN f[tl] ELSE tlState[tl]] :
        f \in PhaseAssignments}

\* while traci.simulation.getMinExpectedNumber() > 0: the count covers the
\* vehicles in the network and those still to be inserted
MayExit == \A v \in VehIdx : ~veh[v].present

ResetLocals ==
    /\ congestion_detected' = FALSE
    /\ alerted_vehicles_in_step' = 0
    /\ options' = <<>>
    /\ oi' = 0
    /\ changed' = FALSE
    /\ attempts' = <<>>

\* the loop condition fails: traci.close()
LoopExit ==
    /\ pc = "loop"
    /\ MayExit
    /\ pc' = "closed"
    /\ lastOp' = NoOp
    /\ UNCHANGED <<variant, step, veh, tlProgram, tlState, ambulances, ai, ti,
                   amb_lane_index, original_tl_programs, congestion_detected,
                   alerted_vehicles_in_step, options, oi, changed, attempts,
                   controller>>
    /\ UNCHANGED <<dashVars, rsuVars>>

\* traci.simulationStep(), the vehicle and ambulance lists, and the first
\* ambulance's state; with no ambulance the step ends at once
SimStep(Snapshots) ==
    /\ pc = "loop"
    /\ step < MaxSteps
    /\ \E lights \in SimulatedLights(tlProgram), snapshot \in Snapshots :
        /\ veh' = snapshot
        /\ tlState' = lights
        /\ ambulances' = AmbulanceList(snapshot)
        /\ IF AmbulanceList(snapshot) = <<>>
           THEN /\ pc' = "loop"
                /\ step' = step + 1
                /\ ai' = 0
                /\ ti' = 0
                /\ amb_lane_index' = 0
           ELSE /\ pc' = "tl"
                /\ step' = step
                /\ ai' = 1
                /\ ti' = 1
                /\ amb_lane_index' = snapshot[AmbulanceList(snapshot)[1]].lane
    /\ ResetLocals
    /\ lastOp' = NoOp
    /\ UNCHANGED <<variant, tlProgram, original_tl_programs, controller>>
    /\ UNCHANGED <<dashVars, rsuVars>>

\* one traffic light of the V2I pass of the current ambulance
ProcessTL ==
    /\ pc = "tl"
    /\ LET amb == ambulances[ai]
           tl == Junctions[ti]
           amb_edge == veh[amb].edge
           controlled_lanes == ControlledLanes(tl)
           state == BuildState(amb_edge, controlled_lanes)
       IN  IF AnyLaneMatches(amb_edge, controlled_lanes)
           THEN /\ IF tl \notin DOMAIN original_tl_programs
                   THEN /\ original_tl_programs' =
                              original_tl_programs @@ (tl :> tlProgram[tl])
                        /\ controller' = [controller EXCEPT ![tl] = amb]
                   ELSE UNCHANGED <<original_tl_programs, controller>>
                /\ IF LengthOk(state, tlState[tl])
                   THEN \* setRedYellowGreenState
                        /\ tlState' = [tlState EXCEPT ![tl] = state]
                        /\ tlProgram' = [tlProgram EXCEPT ![tl] = "online"]
                        /\ lastOp' = Op("setRedYellowGreenState", amb, tl, state, "")
                   ELSE /\ UNCHANGED <<tlState, tlProgram>>
                        /\ lastOp' = Op(IF variant = "comm" THEN "warning" ELSE "none",
                                        amb, tl, <<>>, "")
           ELSE IF variant = "comm" /\ tl \in DOMAIN original_tl_programs
                THEN \* setProgram, del original_tl_programs[tl]
                     /\ tlProgram' = [tlProgram EXCEPT ![tl] = original_tl_programs[tl]]
                     /\ \E phase \in (IF original_tl_programs[tl] = "0"
                                      THEN Phases(tl) ELSE {tlState[tl]}) :
                            tlState' = [tlState EXCEPT ![tl] = phase]
                     /\ original_tl_programs' =
                            [t \in DOMAIN original_tl_programs \ {tl} |->
                                original_tl_programs[t]]
                     /\ lastOp' = Op("setProgram", amb, tl, <<>>, original_tl_programs[tl])
                     /\ UNCHANGED controller
                ELSE /\ lastOp' = Op("none", amb, tl, <<>>, "")
                     /\ UNCHANGED <<tlState, tlProgram, original_tl_programs, controller>>
    /\ IF ti < Len(Junctions)
       THEN /\ ti' = ti + 1
            /\ pc' = "tl"
       ELSE /\ ti' = 0
            /\ pc' = "scan"
    /\ UNCHANGED <<variant, step, veh, ambulances, ai, amb_lane_index,
                   congestion_detected, alerted_vehicles_in_step, options, oi,
                   changed, attempts>>
    /\ UNCHANGED <<dashVars, rsuVars>>


\* distance(p1, p2) squared; math.sqrt is monotone, so 0 < dist < R is
\* 0 < dist^2 < R^2 on the integer grid of the model
DistSq(p1, p2) ==
    (p1[1] - p2[1]) * (p1[1] - p2[1]) + (p1[2] - p2[2]) * (p1[2] - p2[2])

\* if veh_id == amb_id or getVehicleClass(veh_id) == "emergency": continue
Skipped(amb, v) == v = amb \/ Fleet[v].vclass = "emergency"

\* same road, same lane index, 0 < dist < PROACTIVE_DISTANCE, veh x > amb x
Alerts(amb, v, lane_index) ==
    /\ veh[v].edge = veh[amb].edge
    /\ veh[v].lane = lane_index
    /\ 0 < DistSq(veh[amb].pos, veh[v].pos)
    /\ DistSq(veh[amb].pos, veh[v].pos) < PROACTIVE_DISTANCE * PROACTIVE_DISTANCE
    /\ veh[v].pos[1] > veh[amb].pos[1]

\* the vehicles the scan of ambulance amb would flag, in list order
FlaggedList(amb, lane_index) ==
    SelectSeq(VehicleList(veh),
              LAMBDA v : ~Skipped(amb, v) /\ Alerts(amb, v, lane_index))

\* a faulty variant: index - 1 is tried before index + 1
LaneOptionsDownFirst(lane_index, num_lanes) ==
    (IF lane_index - 1 >= 0 THEN <<lane_index - 1>> ELSE <<>>)
    \o (IF lane_index + 1 < num_lanes THEN <<lane_index + 1>> ELSE <<>>)

\* options: index + 1 if it exists, then index - 1 if it exists
LaneOptions(lane_index, num_lanes) ==
    (IF lane_index + 1 < num_lanes THEN <<lane_index + 1>> ELSE <<>>)
    \o (IF lane_index - 1 >= 0 THEN <<lane_index - 1>> ELSE <<>>)

\* the V2V scan of the current ambulance; in ambulance_comm.py it stops at
\* the first flagged vehicle and the lane options are computed, in
\* interface.py every flagged vehicle is counted
Scan ==
    /\ pc = "scan"
    /\ LET amb == ambulances[ai]
           flagged == FlaggedList(amb, amb_lane_index)
       IN  IF variant = "comm"
           THEN /\ congestion_detected' = (flagged # <<>>)
                /\ alerted_vehicles_in_step' = 0
                /\ lastOp' = Op("scan", amb, "",
                                IF flagged = <<>> THEN <<>> ELSE <<Head(flagged)>>, "")
                /\ IF flagged # <<>>
                   THEN /\ options' = LaneOptions(amb_lane_index,
                                                  LaneNumber(veh[amb].edge))
                        /\ IF LaneOptions(amb_lane_index,
                                          LaneNumber(veh[amb].edge)) = <<>>
                           THEN pc' = "next" /\ oi' = 0
                           ELSE pc' = "lane" /\ oi' = 1
                   ELSE /\ options' = <<>>
                        /\ pc' = "next"
                        /\ oi' = 0
           ELSE /\ alerted_vehicles_in_step' = Len(flagged)
                /\ lastOp' = Op("scan", amb, "", flagged, "")
                /\ pc' = "next"
                /\ UNCHANGED <<congestion_detected, options, oi>>
    /\ UNCHANGED <<variant, step, veh, tlProgram, tlState, ambulances, ai, ti,
                   amb_lane_index, original_tl_programs, changed, attempts,
                   controller>>
    /\ UNCHANGED <<dashVars, rsuVars>>

\* what one pass of the try block can do: getLaneID raises, changeLane
\* raises, the second getLaneID raises, the lane id is the same, or differs
ErrorOutcomes == {"error_read", "error_request", "error_reread"}

Outcomes == ErrorOutcomes \cup {"unchanged", "changed"}

\* a faulty variant: only the changeLane call is inside the try block
CaughtRequestOnly(outcome) == outcome = "error_request"

\* except Exception: every error raised inside the try block is caught
Caught(outcome) == outcome \in ErrorOutcomes

\* one iteration of: for new_lane in options
LaneAttempt ==
    /\ pc = "lane"
    /\ LET amb == ambulances[ai]
           new_lane == options[oi]
       IN  \E outcome \in Outcomes :
            /\ attempts' = Append(attempts, [lane |-> new_lane, outcome |-> outcome])
            /\ lastOp' = Op("changeLane", amb, "", <<new_lane>>, outcome)
            /\ IF outcome = "changed"
               THEN \* changed = True; break
                    /\ veh' = [veh EXCEPT ![amb].lane = new_lane]
                    /\ changed' = TRUE
                    /\ pc' = "next"
                    /\ oi' = oi
               ELSE /\ UNCHANGED <<veh, changed>>
                    /\ IF outcome \in ErrorOutcomes /\ ~Caught(outcome)
                       THEN \* an uncaught exception ends the script
                            /\ pc' = "crashed"
                            /\ oi' = oi
                       ELSE IF oi < Len(options)
                            THEN /\ pc' = "lane"
                                 /\ oi' = oi + 1
                            ELSE /\ pc' = "next"
                                 /\ oi' = oi
    /\ UNCHANGED <<variant, step, tlProgram, tlState, ambulances, ai, ti,
                   amb_lane_index, original_tl_programs, congestion_detected,
                   alerted_vehicles_in_step, options, controller>>
    /\ UNCHANGED <<dashVars, rsuVars>>

\* the end of one ambulance's iteration: on to the next ambulance, or to the
\* next simulation step
EndAmbulance ==
    /\ pc = "next"
    /\ IF ai < Len(ambulances)
       THEN /\ pc' = "tl"
            /\ ai' = ai + 1
            /\ ti' = 1
            /\ step' = step
            /\ amb_lane_index' = veh[ambulances[ai + 1]].lane
       ELSE /\ pc' = "loop"
            /\ ai' = 0
            /\ ti' = 0
            /\ step' = step + 1
            /\ amb_lane_index' = 0
    /\ ResetLocals
    /\ lastOp' = NoOp
    /\ UNCHANGED <<variant, veh, tlProgram, tlState, ambulances,
                   original_tl_programs, controller>>
    /\ UNCHANGED <<dashVars, rsuVars>>

Next ==
    \/ LoopExit
    \/ SimStep(SnapshotsTL)
    \/ ProcessTL
    \/ Scan
    \/ LaneAttempt
    \/ EndAmbulance

Spec == Init /\ [][Next]_vars

NextV2V ==
    \/ LoopExit
    \/ SimStep(SnapshotsV2V)
    \/ ProcessTL
    \/ Scan
    \/ LaneAttempt
    \/ EndAmbulance

SpecV2V == Init /\ [][NextV2V]_vars


(***************************************************************************)
(* Properties of the priority loop.                                        *)
(***************************************************************************)
\* the step's for loop over the ambulances has finished
EndOfStep == pc = "loop" /\ step > 0

\* the ambulances of the current step that are on a lane the light controls
AmbulancesOn(tl) ==
    {ambulances[i] : i \in 1..Len(ambulances)} \cap
    {v \in VehIdx : veh[v].present
                    /\ AnyLaneMatches(veh[v].edge, ControlledLanes(tl))}

C2_RestoreOnlyWhenControllerLeft ==
    [][\A tl \in TLs :
          (tl \in DOMAIN original_tl_programs
           /\ tl \notin DOMAIN original_tl_programs')
          => ~(/\ veh[controller[tl]].present
               /\ AnyLaneMatches(veh[controller[tl]].edge, ControlledLanes(tl)))]_vars

\* C3: when the constructed string and the light's current string differ in
\* length, nothing is written: the light keeps its state and program, the
\* loop goes on to the next light (or to the scan after the last light), and
\* ambulance_comm.py logs a warning.
C3_MismatchSkips ==
    [][(/\ pc = "tl"
        /\ AnyLaneMatches(veh[ambulances[ai]].edge, ControlledLanes(Junctions[ti]))
        /\ Len(ControlledLanes(Junctions[ti])) # Len(tlState[Junctions[ti]]))
       => /\ tlState' = tlState
          /\ tlProgram' = tlProgram
          /\ lastOp'.kind # "setRedYellowGreenState"
          /\ (variant = "comm" =>
                 lastOp'.kind = "warning" /\ lastOp'.tl = Junctions[ti])
          /\ ai' = ai
          /\ IF ti < Len(Junctions)
             THEN pc' = "tl" /\ ti' = ti + 1
             ELSE pc' = "scan"]_vars

\* C3 witness: the warning for J3, which controls one lane and shows a
\* two-character state, has been logged and J3 still shows that state.
C3_Witness ==
    /\ lastOp.kind = "warning"
    /\ lastOp.tl = "J3"
    /\ veh[lastOp.amb].edge = EdgeC
    /\ tlState["J3"] = <<"G", "G">>
    /\ tlProgram["J3"] = "0"

\* C4: lane changes are attempted only for an ambulance with a vehicle
\* detected ahead; the attempts follow the list index+1 (if it exists), then
\* index-1 (if it exists); a second attempt is made only when the first did
\* not change the lane; there are at most two attempts.
C4_LaneChangeOrder ==
    attempts # <<>> =>
        LET amb == ambulances[ai]
            num_lanes == LaneNumber(veh[amb].edge)
            up == amb_lane_index + 1
            down == amb_lane_index - 1
            expected == (IF up < num_lanes THEN <<up>> ELSE <<>>)
                        \o (IF down >= 0 THEN <<down>> ELSE <<>>)
        IN  /\ congestion_detected
            /\ \E v \in VehIdx \ {amb} :
                  /\ veh[v].present
                  /\ Fleet[v].vclass # "emergency"
                  /\ Alerts(amb, v, amb_lane_index)
            /\ Len(attempts) <= 2
            /\ Len(attempts) <= Len(expected)
            /\ \A i \in 1..Len(attempts) : attempts[i].lane = expected[i]
            /\ Len(attempts) = 2 => attempts[1].outcome # "changed"

\* C4 witness: from the middle lane, lane 2 was requested without effect and
\* lane 0 was requested next.
C4_Witness ==
    /\ Len(attempts) = 2
    /\ amb_lane_index = 1
    /\ attempts[1] = [lane |-> 2, outcome |-> "unchanged"]
    /\ attempts[2].lane = 0

\* C5: an error raised in a lane-change attempt does not end the script: the
\* loop goes on to the next candidate lane if there is one, and otherwise to
\* the end of this ambulance's iteration, from where the next ambulance and
\* then the next simulation step follow.
C5_ErrorContinues ==
    [][/\ (pc = "lane" /\ lastOp'.kind = "changeLane"
           /\ lastOp'.prog \in ErrorOutcomes)
          => /\ ai' = ai
             /\ step' = step
             /\ ambulances' = ambulances
             /\ IF oi < Len(options)
                THEN pc' = "lane" /\ oi' = oi + 1
                ELSE pc' = "next"
       /\ (pc = "next" /\ ai < Len(ambulances))
          => pc' = "tl" /\ ai' = ai + 1 /\ step' = step
       /\ (pc = "next" /\ ai = Len(ambulances))
          => pc' = "loop" /\ step' = step + 1]_vars

\* C5 witness: reading the lane id raised for the first candidate and the
\* second candidate is next.
C5_Witness ==
    /\ pc = "lane"
    /\ oi = 2
    /\ lastOp.kind = "changeLane"
    /\ lastOp.prog = "error_read"
    /\ ai < Len(ambulances)

\* an emergency vehicle: its class or its identifier marks it
IsEmergencyVehicle(v) ==
    \/ Fleet[v].vclass = "emergency"
    \/ IsSubstr(AmbulanceWord, Lower(Fleet[v].id))

\* C6 (as claimed): the scan of an ambulance flags exactly the other
\* vehicles that are not emergency vehicles, on its road and lane index, at a
\* distance in (0, 100) and ahead; ambulance_comm.py detects congestion
\* exactly when there is one, interface.py counts them.
C6_AlertedExactly ==
    lastOp.kind = "scan" =>
        LET amb == lastOp.amb
            such == {v \in VehIdx \ {amb} :
                        /\ veh[v].present
                        /\ ~IsEmergencyVehicle(v)
                        /\ veh[v].edge = veh[amb].edge
                        /\ veh[v].lane = veh[amb].lane
                        /\ 0 < DistSq(veh[amb].pos, veh[v].pos)
                        /\ DistSq(veh[amb].pos, veh[v].pos) < 100 * 100
                        /\ veh[v].pos[1] > veh[amb].pos[1]}
        IN  IF variant = "comm"
            THEN congestion_detected = (such # {})
            ELSE alerted_vehicles_in_step = Cardinality(such)

\* C8 (as claimed): at the end of a step of ambulance_comm.py every light
\* with an ambulance on one of its lanes (and a state as long as its lane
\* list) is under an override that is green for the lanes of an ambulance on
\* it, and does not run its restored program.
C8_OverriddenAtEndOfStep ==
    (variant = "comm" /\ EndOfStep) =>
        \A tl \in TLs :
            (AmbulancesOn(tl) # {}
             /\ Len(tlState[tl]) = Len(ControlledLanes(tl)))
            => /\ tlProgram[tl] = "online"
               /\ \E amb \in AmbulancesOn(tl) :
                     \A i \in 1..Len(ControlledLanes(tl)) :
                        IsSubstr(veh[amb].edge, ControlledLanes(tl)[i])
                        => tlState[tl][i] = "G"

\* C9 (as claimed): at the end of a step of ambulance_comm.py no light with
\* a saved program is without an ambulance on its lanes, and no saved program
\* is left when the run ends.
C9_EventuallyReleased ==
    variant = "comm" =>
        /\ EndOfStep =>
              \A tl \in DOMAIN original_tl_programs : AmbulancesOn(tl) # {}
        /\ pc = "closed" =>
              /\ DOMAIN original_tl_programs = {}
              /\ \A tl \in TLs : tlProgram[tl] # "online"


(***************************************************************************)
(* interface.py: run_simulation in a background thread and the live        *)
(* plotting loop in the main thread, sharing the logs under log_lock.      *)
(* The traffic-light writes of run_simulation are those of the priority    *)
(* loop above (variant "dash"); here each ambulance's pass is one step     *)
(* that computes the values it logs.                                       *)
(***************************************************************************)
\* inputs: vehicles are away or on road "a", each at its own place
SnapshotsDash ==
    {s \in SnapshotsTL : \A v \in VehIdx : s[v].present => s[v].edge = EdgeA}

\* inputs: the traffic stands or flows
Speeds == {0, 10}

\* a faulty variant: the block is entered without waiting for the lock
LockNeverBlocks(h) == TRUE

\* threading.Lock: acquire succeeds only when no thread holds the lock
LockAvailable(h) == h = {}

\* while getMinExpectedNumber() > 0 fails: traci.close()
W_Exit ==
    /\ wpc = "w_loop"
    /\ \A v \in VehIdx : ~veh[v].present
    /\ wpc' = "w_closed"
    /\ UNCHANGED <<veh, loopRest, upc, holders, dstep, dai, speed, amb_speed,
                   total_alerted_this_step, traffic_lights_controlled,
                   sharedLogs, polls, seen>>
    /\ UNCHANGED rsuVars

\* simulationStep, the vehicle lists, the two per-step counters
W_SimStep ==
    /\ wpc = "w_loop"
    /\ dstep < MaxDashSteps
    /\ \E snapshot \in SnapshotsDash, sp \in Speeds :
        /\ veh' = snapshot
        /\ speed' = [v \in VehIdx |-> IF snapshot[v].present THEN sp ELSE 0]
    /\ total_alerted_this_step' = 0
    /\ traffic_lights_controlled' = 0
    /\ wpc' = "w_clear_acq"
    /\ UNCHANGED <<loopRest, upc, holders, dstep, dai, amb_speed, sharedLogs,
                   polls, seen>>
    /\ UNCHANGED rsuVars

\* entering a "with log_lock:" block of the worker
W_Acquire(at, to) ==
    /\ wpc = at
    /\ LockAvailable(holders)
    /\ holders' = holders \cup {"worker"}
    /\ wpc' = to
    /\ UNCHANGED <<veh, loopRest, upc, dstep, dai, speed, amb_speed,
                   total_alerted_this_step, traffic_lights_controlled,
                   sharedLogs, polls, seen>>
    /\ UNCHANGED rsuVars

W_ClearAcquire == W_Acquire("w_clear_acq", "w_clear")

\* vehicle_data.clear()
W_Clear ==
    /\ wpc = "w_clear"
    /\ vehicle_data' = <<>>
    /\ wpc' = "w_clear_rel"
    /\ UNCHANGED <<veh, loopRest, upc, holders, dstep, dai, speed, amb_speed,
                   total_alerted_this_step, traffic_lights_controlled,
                   time_log, ambulance_speed_log, vehicle_alert_count,
                   traffic_light_control_log, stopped_vehicle_counts,
                   simulation_times, polls, seen>>
    /\ UNCHANGED rsuVars

\* leaving the block; for amb_id in ambulances starts
W_ClearRelease ==
    /\ wpc = "w_clear_rel"
    /\ holders' = holders \ {"worker"}
    /\ IF AmbulanceList(veh) = <<>>
       THEN wpc' = "w_data_acq" /\ dai' = 0
       ELSE wpc' = "w_amb" /\ dai' = 1
    /\ UNCHANGED <<veh, loopRest, upc, dstep, speed, amb_speed,
                   total_alerted_this_step, traffic_lights_controlled,
                   sharedLogs, polls, seen>>
    /\ UNCHANGED rsuVars

\* one ambulance: its speed, the lights it controls, the vehicles it alerts
W_Ambulance ==
    /\ wpc = "w_amb"
    /\ LET amb == AmbulanceList(veh)[dai]
           controlled_this_ambulance ==
               Cardinality({tl \in TLs :
                   AnyLaneMatches(veh[amb].edge, ControlledLanes(tl))})
       IN  /\ amb_speed' = speed[amb]
           /\ traffic_lights_controlled' =
                  traffic_lights_controlled + controlled_this_ambulance
           /\ total_alerted_this_step' =
                  total_alerted_this_step + Len(FlaggedList(amb, veh[amb].lane))
    /\ wpc' = "w_log_acq"
    /\ UNCHANGED <<veh, loopRest, upc, holders, dstep, dai, speed, sharedLogs,
                   polls, seen>>
    /\ UNCHANGED rsuVars

W_LogAcquire == W_Acquire("w_log_acq", "w_log_time")

\* time_log.append(step)
W_LogTime ==
    /\ wpc = "w_log_time"
    /\ time_log' = Append(time_log, dstep)
    /\ wpc' = "w_log_speed"
    /\ UNCHANGED <<veh, loopRest, upc, holders, dstep, dai, speed, amb_speed,
                   total_alerted_this_step, traffic_lights_controlled,
                   ambulance_speed_log, vehicle_alert_count,
                   traffic_light_control_log, stopped_vehicle_counts,
                   simulation_times, vehicle_data, polls, seen>>
    /\ UNCHANGED rsuVars

\* ambulance_speed_log.append(amb_speed)
W_LogSpeed ==
    /\ wpc = "w_log_speed"
    /\ ambulance_speed_log' = Append(ambulance_speed_log, amb_speed)
    /\ wpc' = "w_log_alert"
    /\ UNCHANGED <<veh, loopRest, upc, holders, dstep, dai, speed, amb_speed,
                   total_alerted_this_step, traffic_lights_controlled,
                   time_log, vehicle_alert_count,
                   traffic_light_control_log, stopped_vehicle_counts,
                   simulation_times, vehicle_data, polls, seen>>
    /\ UNCHANGED rsuVars

\* vehicle_alert_count.append(total_alerted_this_step)
W_LogAlert ==
    /\ wpc = "w_log_alert"
    /\ vehicle_alert_count' = Append(vehicle_alert_count, total_alerted_this_step)
    /\ wpc' = "w_log_tl"
    /\ UNCHANGED <<veh, loopRest, upc, holders, dstep, dai, speed, amb_speed,
                   total_alerted_this_step, traffic_lights_controlled,
                   time_log, ambulance_speed_log,
                   traffic_light_control_log, stopped_vehicle_counts,
                   simulation_times, vehicle_data, polls, seen>>
    /\ UNCHANGED rsuVars

\* traffic_light_control_log.append(traffic_lights_controlled)
W_LogTL ==
    /\ wpc = "w_log_tl"
    /\ traffic_light_control_log' =
           Append(traffic_light_control_log, traffic_lights_controlled)
    /\ wpc' = "w_log_rel"
    /\ UNCHANGED <<veh, loopRest, upc, holders, dstep, dai, speed, amb_speed,
                   total_alerted_this_step, traffic_lights_controlled,
                   time_log, ambulance_speed_log, vehicle_alert_count,
                   stopped_vehicle_counts, simulation_times, vehicle_data,
                   polls, seen>>
    /\ UNCHANGED rsuVars

\* leaving the block; the next ambulance, or the per-step vehicle table
W_LogRelease ==
    /\ wpc = "w_log_rel"
    /\ holders' = holders \ {"worker"}
    /\ IF dai < Len(AmbulanceList(veh))
       THEN wpc' = "w_amb" /\ dai' = dai + 1
       ELSE wpc' = "w_data_acq" /\ dai' = 0
    /\ UNCHANGED <<veh, loopRest, upc, dstep, speed, amb_speed,
                   total_alerted_this_step, traffic_lights_controlled,
                   sharedLogs, polls, seen>>
    /\ UNCHANGED rsuVars

W_DataAcquire == W_Acquire("w_data_acq", "w_data_fill")

\* vehicle_data[veh_id] = {...} for every vehicle
W_DataFill ==
    /\ wpc = "w_data_fill"
    /\ vehicle_data' =
           [v \in {w \in VehIdx : veh[w].present} |->
               [speed |-> speed[v],
                class |-> Fleet[v].vclass,
                position |-> veh[v].pos,
                stopped |-> (speed[v] < 1),
                is_ambulance |-> IsAmbulance(v)]]
    /\ wpc' = "w_data_stopped"
    /\ UNCHANGED <<veh, loopRest, upc, holders, dstep, dai, speed, amb_speed,
                   total_alerted_this_step, traffic_lights_controlled,
                   time_log, ambulance_speed_log, vehicle_alert_count,
                   traffic_light_control_log, stopped_vehicle_counts,
                   simulation_times, polls, seen>>
    /\ UNCHANGED rsuVars

\* stopped_vehicle_counts.append(stopped_count)
W_DataStopped ==
    /\ wpc = "w_data_stopped"
    /\ stopped_vehicle_counts' =
           Append(stopped_vehicle_counts,
                  Cardinality({v \in DOMAIN vehicle_data :
                      vehicle_data[v].stopped /\ ~vehicle_data[v].is_ambulance}))
    /\ wpc' = "w_data_time"
    /\ UNCHANGED <<veh, loopRest, upc, holders, dstep, dai, speed, amb_speed,
                   total_alerted_this_step, traffic_lights_controlled,
                   time_log, ambulance_speed_log, vehicle_alert_count,
                   traffic_light_control_log, simulation_times, vehicle_data,
                   polls, seen>>
    /\ UNCHANGED rsuVars

\* simulation_times.append(step)
W_DataTime ==
    /\ wpc = "w_data_time"
    /\ simulation_times' = Append(simulation_times, dstep)
    /\ wpc' = "w_data_rel"
    /\ UNCHANGED <<veh, loopRest, upc, holders, dstep, dai, speed, amb_speed,
                   total_alerted_this_step, traffic_lights_controlled,
                   time_log, ambulance_speed_log, vehicle_alert_count,
                   traffic_light_control_log, stopped_vehicle_counts,
                   vehicle_data, polls, seen>>
    /\ UNCHANGED rsuVars

\* leaving the block; step += 1
W_DataRelease ==
    /\ wpc = "w_data_rel"
    /\ holders' = holders \ {"worker"}
    /\ dstep' = dstep + 1
    /\ wpc' = "w_loop"
    /\ UNCHANGED <<veh, loopRest, upc, dai, speed, amb_speed,
                   total_alerted_this_step, traffic_lights_controlled,
                   sharedLogs, polls, seen>>
    /\ UNCHANGED rsuVars

\* for _ in range(1000): time.sleep(0.5)
U_Poll ==
    /\ upc = "u_sleep"
    /\ polls < MaxPolls
    /\ polls' = polls + 1
    /\ upc' = "u_acq"
    /\ UNCHANGED <<veh, loopRest, wpc, holders, dstep, dai, speed, amb_speed,
                   total_alerted_this_step, traffic_lights_controlled,
                   sharedLogs, seen>>
    /\ UNCHANGED rsuVars

\* with log_lock:
U_Acquire ==
    /\ upc = "u_acq"
    /\ LockAvailable(holders)
    /\ holders' = holders \cup {"ui"}
    /\ upc' = "u_check"
    /\ UNCHANGED <<veh, loopRest, wpc, dstep, dai, speed, amb_speed,
                   total_alerted_this_step, traffic_lights_controlled,
                   sharedLogs, polls, seen>>
    /\ UNCHANGED rsuVars

\* if not time_log: continue
U_Check ==
    /\ upc = "u_check"
    /\ upc' = IF time_log = <<>> THEN "u_rel" ELSE "u_speed"
    /\ UNCHANGED <<veh, loopRest, wpc, holders, dstep, dai, speed, amb_speed,
                   total_alerted_this_step, traffic_lights_controlled,
                   sharedLogs, polls, seen>>
    /\ UNCHANGED rsuVars

\* a figure reads an x list and a y list
U_Plot(at, to, xs, ys) ==
    /\ upc = at
    /\ seen' = Append(seen, <<Len(xs), Len(ys)>>)
    /\ upc' = to
    /\ UNCHANGED <<veh, loopRest, wpc, holders, dstep, dai, speed, amb_speed,
                   total_alerted_this_step, traffic_lights_controlled,
                   sharedLogs, polls>>
    /\ UNCHANGED rsuVars

U_PlotSpeed == U_Plot("u_speed", "u_alert", time_log, ambulance_speed_log)

U_PlotAlert == U_Plot("u_alert", "u_tl", time_log, vehicle_alert_count)

U_PlotTL == U_Plot("u_tl", "u_table", time_log, traffic_light_control_log)

\* pd.DataFrame.from_dict(vehicle_data, orient='index')
U_Table ==
    /\ upc = "u_table"
    /\ upc' = "u_stops"
    /\ UNCHANGED <<veh, loopRest, wpc, holders, dstep, dai, speed, amb_speed,
                   total_alerted_this_step, traffic_lights_controlled,
                   sharedLogs, polls, seen>>
    /\ UNCHANGED rsuVars

U_PlotStops == U_Plot("u_stops", "u_rel", simulation_times, stopped_vehicle_counts)

\* leaving the with block
U_Release ==
    /\ upc = "u_rel"
    /\ holders' = holders \ {"ui"}
    /\ seen' = <<>>
    /\ upc' = "u_sleep"
    /\ UNCHANGED <<veh, loopRest, wpc, dstep, dai, speed, amb_speed,
                   total_alerted_this_step, traffic_lights_controlled,
                   sharedLogs, polls>>
    /\ UNCHANGED rsuVars

InitDash ==
    /\ Init
    /\ variant = "dash"
    /\ tlState = [tl \in TLs |-> CHOOSE ph \in Phases(tl) : TRUE]

NextDash ==
    \/ W_Exit
    \/ W_SimStep
    \/ W_ClearAcquire
    \/ W_Clear
    \/ W_ClearRelease
    \/ W_Ambulance
    \/ W_LogAcquire
    \/ W_LogTime
    \/ W_LogSpeed
    \/ W_LogAlert
    \/ W_LogTL
    \/ W_LogRelease
    \/ W_DataAcquire
    \/ W_DataFill
    \/ W_DataStopped
    \/ W_DataTime
    \/ W_DataRelease
    \/ U_Poll
    \/ U_Acquire
    \/ U_Check
    \/ U_PlotSpeed
    \/ U_PlotAlert
    \/ U_PlotTL
    \/ U_Table
    \/ U_PlotStops
    \/ U_Release

SpecDash == InitDash /\ [][NextDash]_vars

\* C7: while the plotting loop is inside "with log_lock", the four
\* per-ambulance logs have one length, the two per-step logs have one length,
\* every figure read lists of equal length, and no step changes a log or
\* vehicle_data.
C7_NoTornState ==
    /\ []("ui" \in holders =>
            /\ Len(time_log) = Len(ambulance_speed_log)
            /\ Len(time_log) = Len(vehicle_alert_count)
            /\ Len(time_log) = Len(traffic_light_control_log)
            /\ Len(simulation_times) = Len(stopped_vehicle_counts)
            /\ \A i \in 1..Len(seen) : seen[i][1] = seen[i][2]
            /\ \A i \in 1..Len(seen) : i <= 3 => seen[i] = seen[1])
    /\ [][("ui" \in holders) => (sharedLogs' = sharedLogs)]_vars

\* C7 witness: the plotting loop has read all four figures under the lock
\* while the worker, with an ambulance's values computed, waits for the lock.
C7_Witness ==
    /\ "ui" \in holders
    /\ upc = "u_rel"
    /\ Len(seen) = 4
    /\ wpc = "w_log_acq"
    /\ Len(time_log) >= 1


(***************************************************************************)
(* generate_rsu.py: induction loops on the routes of emergency vehicles.   *)
(* Lengths and positions are in twentieths of a metre, so that the halves  *)
(* of lane lengths given in tenths are exact; one metre is 20.             *)
(***************************************************************************)
NetEdges == {EdgeA, EdgeRevA, EdgeB, EdgeC}

\* traci.lane.getIDList()
LaneIDList == {LaneID(e, k) : e \in NetEdges, k \in 0..2} \ 
              {LaneID(e, k) : e \in NetEdges \ {EdgeA}, k \in 1..2}

\* traci.vehicle.getRoute
Route(v) ==
    CASE v = 1 -> <<EdgeA, EdgeB, EdgeC>>
      [] v = 2 -> <<EdgeRevA>>
      [] v = 3 -> <<EdgeC, EdgeA>>

\* inputs: traci.lane.getLength: 0.5 m, 1 m, 1.5 m, 2 m, 3 m, 12.5 m
LaneLengths == {10, 20, 30, 40, 60, 250}

Max(a, b) == IF a >= b THEN a ELSE b

Min(a, b) == IF a <= b THEN a ELSE b

\* pos = max(1, min(lane_length / 2, lane_length - 1))
RsuPos(lane_length) == Max(20, Min(lane_length \div 2, lane_length - 20))

\* the routes of the vehicles of class "emergency" among those present
EmergencyRouteEdges(present) ==
    UNION {{Route(v)[i] : i \in 1..Len(Route(v))} :
              v \in {w \in present : Fleet[w].vclass = "emergency"}}

\* the first look at traci.vehicle.getIDList()
R_Scan ==
    /\ rpc = "scan"
    /\ \E present \in SUBSET VehIdx :
        /\ emergency_edges' = EmergencyRouteEdges(present)
        /\ rpc' = IF EmergencyRouteEdges(present) = {} THEN "advance" ELSE "place"
    /\ UNCHANGED <<advanced, placed, rsu_list, measured, xml>>
    /\ UNCHANGED <<loopVars, dashVars>>

\* one of the detection loop's simulation steps
R_Advance ==
    /\ rpc = "advance"
    /\ advanced < MaxAdvance
    /\ \E present \in SUBSET VehIdx :
        emergency_edges' = emergency_edges \cup EmergencyRouteEdges(present)
    /\ advanced' = advanced + 1
    /\ UNCHANGED <<rpc, placed, rsu_list, measured, xml>>
    /\ UNCHANGED <<loopVars, dashVars>>

\* the detection loop is over
R_AdvanceEnd ==
    /\ rpc = "advance"
    /\ advanced = MaxAdvance
    /\ rpc' = "place"
    /\ UNCHANGED <<emergency_edges, advanced, placed, rsu_list, measured, xml>>
    /\ UNCHANGED <<loopVars, dashVars>>

\* one iteration of: for edge_id in emergency_edges (a set: any order)
R_Place ==
    /\ rpc = "place"
    /\ \E edge_id \in emergency_edges \ placed :
        /\ placed' = placed \cup {edge_id}
        /\ IF LaneID(edge_id, 0) \in LaneIDList
           THEN \E lane_length \in LaneLengths :
                  /\ rsu_list' = Append(rsu_list,
                                        <<LaneID(edge_id, 0), RsuPos(lane_length)>>)
                  /\ measured' = Append(measured, lane_length)
           ELSE UNCHANGED <<rsu_list, measured>>
    /\ UNCHANGED <<rpc, emergency_edges, advanced, xml>>
    /\ UNCHANGED <<loopVars, dashVars>>

\* one inductionLoop element per entry of rsu_list, then tree.write
R_Write ==
    /\ rpc = "place"
    /\ placed = emergency_edges
    /\ xml' = [i \in 1..Len(rsu_list) |->
                 [id |-> <<"r", "s", "u", "_">> \o Digit(i - 1),
                  lane |-> rsu_list[i][1],
                  pos |-> rsu_list[i][2]]]
    /\ rpc' = "done"
    /\ UNCHANGED <<emergency_edges, advanced, placed, rsu_list, measured>>
    /\ UNCHANGED <<loopVars, dashVars>>

NextRsu ==
    \/ R_Scan
    \/ R_Advance
    \/ R_AdvanceEnd
    \/ R_Place
    \/ R_Write

InitRsu ==
    /\ Init
    /\ variant = "comm"
    /\ tlState = [tl \in TLs |-> CHOOSE ph \in Phases(tl) : TRUE]

SpecRsu == InitRsu /\ [][NextRsu]_vars

\* C10 (as claimed): every induction loop written is on lane 0 of an edge of
\* an emergency vehicle's route, a lane of the network, at a position between
\* 0 and that lane's length.
C10_RsuOnLane ==
    rpc = "done" =>
        \A i \in 1..Len(xml) :
            /\ xml[i].lane \in LaneIDList
            /\ \E v \in VehIdx :
                  /\ Fleet[v].vclass = "emergency"
                  /\ \E k \in 1..Len(Route(v)) : xml[i].lane = LaneID(Route(v)[k], 0)
            /\ 0 <= xml[i].pos
            /\ xml[i].pos <= measured[i]

====
